---- MODULE Spec2Model ----
(***************************************************************************)
(* Model of the generic singly-linked list of package linkedlist/singly.   *)
(* The heap of node records is explicit: a node is an identifier mapped to *)
(* its value and next fields, Nil is the nil pointer.  Every method of     *)
(* List is an operator from a list record to a result record, and an       *)
(* action that calls it on the current list.                               *)
(***************************************************************************)
EXTENDS Integers, Sequences, FiniteSets, TLC

\* Bounds of the model.
MaxSize == 4    \* the guards keep list.size at most this
MaxArgs == 2    \* longest variadic argument list a call passes
MaxVal  == 1    \* element values are 0..MaxVal

\* first, last, size: the fields of the List; heap: the nodes.
\* pc: where the caller is; pre, op, err, ret: the list before the last call,
\* the call and what it returned.
VARIABLES first, last, size, heap, pc, pre, op, err, ret

vars == <<first, last, size, heap, pc, pre, op, err, ret>>

\* The nil pointer, and the zero value of T (T is int).
Nil == 0
Zero == 0

\* The element domain T of the model.
T == 0..MaxVal

\* The sentinel errors of package errors, nil, and a run-time panic.
NoError == "nil"
ErrIndexOutOfBounds == "index out of bounds"
ErrEmptyList == "list is empty"
ErrElementNotFound == "element not found"
Panic == "panic"

\* A List value: the three fields of the struct and the nodes they point into.
MkList(f, l, s, h) == [first |-> f, last |-> l, size |-> s, heap |-> h]

\* What a call returns: the list after it, its error and its value.
Result(L, e, r) == [list |-> L, err |-> e, ret |-> r]

\* &List[T]{}: nil first, nil last, size 0, no node allocated.
EmptyList == MkList(Nil, Nil, 0, <<>>)

\* &node[T]{...}: the address of a newly allocated node is one no live node has.
NewNode(h) == CHOOSE n \in 1..(Cardinality(DOMAIN h) + 1) :
                /\ n \notin DOMAIN h
                /\ \A m \in 1..(n - 1) : m \in DOMAIN h

\* The heap h with node n holding value v and next link nx.
Store(h, n, v, nx) == [m \in (DOMAIN h) \cup {n} |->
                         IF m = n THEN [value |-> v, next |-> nx] ELSE h[m]]

\* list.size == 0
IsEmpty(L) == L.size = 0

\* list.size
Size(L) == L.size

\* inBounds with index <= list.size for index < list.size.
InBoundsOffByOne(L, index) == index >= 0 /\ index <= L.size

\* index >= 0 && index < list.size
inBounds(L, index) == index >= 0 /\ index < L.size

\* The loop body of Add without list.last = elem on a list that is not empty.
AddOneKeepsLast(L, v) ==
  LET elem == NewNode(L.heap)
      h1 == Store(L.heap, elem, v, Nil)
  IN IF L.size = 0
     THEN Result(MkList(elem, elem, L.size + 1, h1), NoError, Nil)
     ELSE IF L.last = Nil
          THEN Result(L, Panic, Nil)
          ELSE Result(MkList(L.first, L.last, L.size + 1,
                             Store(h1, L.last, h1[L.last].value, elem)),
                      NoError, Nil)

\* One iteration of the loop of Add for value v.
AddOne(L, v) ==
  LET elem == NewNode(L.heap)
      h1 == Store(L.heap, elem, v, Nil)
  IN IF L.size = 0
     THEN Result(MkList(elem, elem, L.size + 1, h1), NoError, Nil)
     ELSE IF L.last = Nil
          THEN Result(L, Panic, Nil)
          ELSE Result(MkList(L.first, elem, L.size + 1,
                             Store(h1, L.last, h1[L.last].value, elem)),
                      NoError, Nil)

RECURSIVE AddLoop(_, _, _)
\* for _, value := range values, from the k-th value on.
AddLoop(L, values, k) ==
  IF k > Len(values) THEN Result(L, NoError, Nil)
  ELSE LET r == AddOne(L, values[k])
       IN IF r.err = Panic THEN r ELSE AddLoop(r.list, values, k + 1)

\* Add appends the values to the end of the list.
Add(L, values) == AddLoop(L, values, 1)

\* Append is an alias for Add.
AppendValues(L, values) == Add(L, values)

\* New: an empty list, values added when there are any.
New(values) == IF Len(values) > 0 THEN Add(EmptyList, values).list ELSE EmptyList

\* The loop body of Prepend without the assignment to list.last.
PrependOneNoTail(L, v) ==
  LET elem == NewNode(L.heap)
      h1 == Store(L.heap, elem, v, L.first)
  IN MkList(elem, L.last, L.size + 1, h1)

\* One iteration of the loop of Prepend for value v.
PrependOne(L, v) ==
  LET elem == NewNode(L.heap)
      h1 == Store(L.heap, elem, v, L.first)
  IN MkList(elem, IF L.size = 0 THEN elem ELSE L.last, L.size + 1, h1)

RECURSIVE PrependLoopForward(_, _, _)
\* The loop of Prepend running from the first value to the last.
PrependLoopForward(L, values, i) ==
  IF i < 1 THEN L
  ELSE PrependOne(PrependLoopForward(L, values, i - 1), values[i])

RECURSIVE PrependLoop(_, _, _)
\* for i := len(values) - 1; i >= 0; i -= 1, from the i-th value down.
PrependLoop(L, values, i) ==
  IF i < 1 THEN L ELSE PrependLoop(PrependOne(L, values[i]), values, i - 1)

\* Prepend adds the values to the beginning of the list.
Prepend(L, values) == Result(PrependLoop(L, values, Len(values)), NoError, Nil)

\* First returns the head node's value.
First(L) ==
  IF IsEmpty(L) THEN Result(L, ErrEmptyList, Zero)
  ELSE IF L.first = Nil THEN Result(L, Panic, Zero)
  ELSE Result(L, NoError, L.heap[L.first].value)

\* Last returns the tail node's value.
Last(L) ==
  IF IsEmpty(L) THEN Result(L, ErrEmptyList, Zero)
  ELSE IF L.last = Nil THEN Result(L, Panic, Zero)
  ELSE Result(L, NoError, L.heap[L.last].value)

RECURSIVE Walk(_, _, _, _, _)
\* for i := 0; i != index; i, node = i+1, node.next { prev = node }
\* The node and its predecessor when the loop ends; reading the next field
\* of a nil node panics.
Walk(h, prev, node, i, index) ==
  IF i = index THEN [panic |-> FALSE, prev |-> prev, node |-> node]
  ELSE IF node = Nil THEN [panic |-> TRUE, prev |-> prev, node |-> node]
  ELSE Walk(h, node, h[node].next, i + 1, index)

\* Get with its loop starting at i := 1.
GetStartsAtOne(L, index) ==
  IF ~inBounds(L, index) THEN Result(L, ErrIndexOutOfBounds, Zero)
  ELSE LET w == Walk(L.heap, Nil, L.first, 1, index)
       IN IF w.panic \/ w.node = Nil THEN Result(L, Panic, Zero)
          ELSE Result(L, NoError, L.heap[w.node].value)

\* Get returns the value at the index.
Get(L, index) ==
  IF ~inBounds(L, index) THEN Result(L, ErrIndexOutOfBounds, Zero)
  ELSE LET w == Walk(L.heap, Nil, L.first, 0, index)
       IN IF w.panic \/ w.node = Nil THEN Result(L, Panic, Zero)
          ELSE Result(L, NoError, L.heap[w.node].value)

RECURSIVE ValuesLoop(_, _, _, _)
\* for i, node := 0, list.first; node != nil; i, node = i+1, node.next
\* writing values[i] of a slice of list.size elements (i counts from 0).
ValuesLoop(L, values, i, node) ==
  IF node = Nil THEN Result(L, NoError, values)
  ELSE IF i >= Len(values) THEN Result(L, Panic, values)
  ELSE ValuesLoop(L, [values EXCEPT ![i + 1] = L.heap[node].value],
                  i + 1, L.heap[node].next)

\* Values walking with list.first itself, which is nil when the loop ends.
ValuesMovesFirst(L) ==
  LET r == ValuesLoop(L, [k \in 1..L.size |-> Zero], 0, L.first)
  IN Result(MkList(Nil, L.last, L.size, L.heap), r.err, r.ret)

\* Values returns a slice of all the values of the list.
Values(L) == ValuesLoop(L, [k \in 1..L.size |-> Zero], 0, L.first)

RECURSIVE IndexOfLoopNoCount(_, _, _, _)
\* The loop of IndexOf without index += 1.
IndexOfLoopNoCount(L, value, node, index) ==
  IF node = Nil THEN Result(L, ErrElementNotFound, -1)
  ELSE IF L.heap[node].value = value THEN Result(L, NoError, index)
  ELSE IndexOfLoopNoCount(L, value, L.heap[node].next, index)

RECURSIVE IndexOfLoop(_, _, _, _)
\* for node := list.first; node != nil; node = node.next
IndexOfLoop(L, value, node, index) ==
  IF node = Nil THEN Result(L, ErrElementNotFound, -1)
  ELSE IF L.heap[node].value = value THEN Result(L, NoError, index)
  ELSE IndexOfLoop(L, value, L.heap[node].next, index + 1)

\* IndexOf returns the first index of the value.
IndexOf(L, value) ==
  IF IsEmpty(L) THEN Result(L, ErrEmptyList, -1)
  ELSE IndexOfLoop(L, value, L.first, 0)

\* Clear without list.last = nil.
ClearKeepsLast(L) == Result(MkList(Nil, L.last, 0, L.heap), NoError, Nil)

\* Clear removes all the elements.
Clear(L) == Result(MkList(Nil, Nil, 0, L.heap), NoError, Nil)

\* The end of Remove without list.size -= 1.
UnlinkNoDecrement(L, prev, node) ==
  LET nx == L.heap[node].next
      f1 == IF node = L.first THEN nx ELSE L.first
      l1 == IF node = L.last THEN prev ELSE L.last
      h1 == IF prev # Nil THEN Store(L.heap, prev, L.heap[prev].value, nx)
            ELSE L.heap
  IN MkList(f1, l1, L.size, h1)

\* The end of Remove without prev.next = node.next.
UnlinkNoRelink(L, prev, node) ==
  LET nx == L.heap[node].next
      f1 == IF node = L.first THEN nx ELSE L.first
      l1 == IF node = L.last THEN prev ELSE L.last
  IN MkList(f1, l1, L.size - 1, L.heap)

\* The end of Remove without list.last = prev.
UnlinkKeepsLast(L, prev, node) ==
  LET nx == L.heap[node].next
      f1 == IF node = L.first THEN nx ELSE L.first
      h1 == IF prev # Nil THEN Store(L.heap, prev, L.heap[prev].value, nx)
            ELSE L.heap
  IN MkList(f1, L.last, L.size - 1, h1)

\* The end of Remove: node, found after prev, leaves the chain; first and
\* last move when node was one of them, and the size goes down by one.
Unlink(L, prev, node) ==
  LET nx == L.heap[node].next
      f1 == IF node = L.first THEN nx ELSE L.first
      l1 == IF node = L.last THEN prev ELSE L.last
      h1 == IF prev # Nil THEN Store(L.heap, prev, L.heap[prev].value, nx)
            ELSE L.heap
  IN MkList(f1, l1, L.size - 1, h1)

\* Remove with its two checks in the other order.
RemoveBoundsFirst(L, index) ==
  IF ~inBounds(L, index) THEN Result(L, ErrIndexOutOfBounds, Nil)
  ELSE IF IsEmpty(L) THEN Result(L, ErrEmptyList, Nil)
  ELSE LET w == Walk(L.heap, Nil, L.first, 0, index)
       IN IF w.panic \/ w.node = Nil THEN Result(L, Panic, Nil)
          ELSE Result(Unlink(L, w.prev, w.node), NoError, Nil)

\* Remove deletes the element at the index.
Remove(L, index) ==
  IF IsEmpty(L) THEN Result(L, ErrEmptyList, Nil)
  ELSE IF ~inBounds(L, index) THEN Result(L, ErrIndexOutOfBounds, Nil)
  ELSE LET w == Walk(L.heap, Nil, L.first, 0, index)
       IN IF w.panic \/ w.node = Nil THEN Result(L, Panic, Nil)
          ELSE Result(Unlink(L, w.prev, w.node), NoError, Nil)

\* The set of the values of a sequence: the keys of the map valuesToFind.
Range(values) == {values[k] : k \in 1..Len(values)}

RECURSIVE ContainsLoop(_, _, _)
\* for node := list.first; node != nil; node = node.next, deleting each
\* value found from valuesToFind and returning true once it is empty.
ContainsLoop(h, node, valuesToFind) ==
  IF node = Nil THEN FALSE
  ELSE IF h[node].value \in valuesToFind
       THEN LET rest == valuesToFind \ {h[node].value}
            IN IF rest = {} THEN TRUE ELSE ContainsLoop(h, h[node].next, rest)
       ELSE ContainsLoop(h, h[node].next, valuesToFind)

\* Contains checks that all the values exist in the list.
Contains(L, values) ==
  IF Len(values) = 0 THEN Result(L, NoError, TRUE)
  ELSE IF L.size = 0 \/ L.size < Len(values) THEN Result(L, NoError, FALSE)
  ELSE Result(L, NoError, ContainsLoop(L.heap, L.first, Range(values)))

RECURSIVE SwapLoopStopsAtFirst(_, _, _, _, _, _, _)
\* The loop of Swap with node1 == nil && node2 == nil as its condition.
SwapLoopStopsAtFirst(h, i, j, n, current, node1, node2) ==
  IF current # Nil /\ (node1 = Nil /\ node2 = Nil)
  THEN SwapLoopStopsAtFirst(h, i, j, n + 1, h[current].next,
                            IF i = n THEN current ELSE node1,
                            IF j = n THEN current ELSE node2)
  ELSE [node1 |-> node1, node2 |-> node2]

RECURSIVE SwapLoop(_, _, _, _, _, _, _)
\* for n := 0; current != nil && (node1 == nil || node2 == nil);
\*     n, current = n+1, current.next
SwapLoop(h, i, j, n, current, node1, node2) ==
  IF current # Nil /\ (node1 = Nil \/ node2 = Nil)
  THEN SwapLoop(h, i, j, n + 1, h[current].next,
                IF i = n THEN current ELSE node1,
                IF j = n THEN current ELSE node2)
  ELSE [node1 |-> node1, node2 |-> node2]

\* Swap with node1.value = node2.value; node2.value = node1.value.
SwapOverwrites(L, i, j) ==
  IF ~inBounds(L, i) \/ ~inBounds(L, j) THEN Result(L, ErrIndexOutOfBounds, Nil)
  ELSE IF i = j THEN Result(L, NoError, Nil)
  ELSE LET w == SwapLoop(L.heap, i, j, 0, L.first, Nil, Nil)
       IN IF w.node1 = Nil \/ w.node2 = Nil THEN Result(L, Panic, Nil)
          ELSE LET v2 == L.heap[w.node2].value
                   h1 == Store(L.heap, w.node1, v2, L.heap[w.node1].next)
               IN Result(MkList(L.first, L.last, L.size, h1), NoError, Nil)

\* Swap exchanges the values of the nodes at indexes i and j.
Swap(L, i, j) ==
  IF ~inBounds(L, i) \/ ~inBounds(L, j) THEN Result(L, ErrIndexOutOfBounds, Nil)
  ELSE IF i = j THEN Result(L, NoError, Nil)
  ELSE LET w == SwapLoop(L.heap, i, j, 0, L.first, Nil, Nil)
       IN IF w.node1 = Nil \/ w.node2 = Nil THEN Result(L, Panic, Nil)
          ELSE LET v1 == L.heap[w.node1].value
                   v2 == L.heap[w.node2].value
                   h1 == Store(L.heap, w.node1, v2, L.heap[w.node1].next)
                   h2 == Store(h1, w.node2, v1, h1[w.node2].next)
               IN Result(MkList(L.first, L.last, L.size, h2), NoError, Nil)

\* The loop of Insert without prev = newNode.
RECURSIVE InsertLoopKeepsPrev(_, _, _, _)
InsertLoopKeepsPrev(h, prev, values, k) ==
  IF k > Len(values) THEN [heap |-> h, prev |-> prev]
  ELSE LET newNode == NewNode(h)
           h1 == Store(h, newNode, values[k], Nil)
           h2 == Store(h1, prev, h1[prev].value, newNode)
       IN InsertLoopKeepsPrev(h2, prev, values, k + 1)

RECURSIVE InsertLoop(_, _, _, _)
\* for _, v := range values { newNode; prev.next = newNode; prev = newNode }
\* from the k-th value on: the heap and prev when the loop ends.
InsertLoop(h, prev, values, k) ==
  IF k > Len(values) THEN [heap |-> h, prev |-> prev]
  ELSE LET newNode == NewNode(h)
           h1 == Store(h, newNode, values[k], Nil)
           h2 == Store(h1, prev, h1[prev].value, newNode)
       IN InsertLoop(h2, newNode, values, k + 1)

\* The end of Insert, for an index in bounds that is not 0: the size grows,
\* the walk finds the predecessor, the new nodes are threaded after it and
\* the last of them is linked to the node that was at the index.
InsertAt(L, index, values) ==
  LET L1 == MkList(L.first, L.last, L.size + Len(values), L.heap)
      w == Walk(L.heap, Nil, L.first, 0, index)
  IN IF w.panic \/ w.prev = Nil THEN Result(L1, Panic, Nil)
     ELSE LET oldNext == L.heap[w.prev].next
              r == InsertLoop(L.heap, w.prev, values, 1)
              h1 == Store(r.heap, r.prev, r.heap[r.prev].value, oldNext)
          IN Result(MkList(L.first, L.last, L1.size, h1), NoError, Nil)

\* Insert with list.size += len(values) before the bounds check.
InsertCountsFirst(L, index, values) ==
  LET L1 == MkList(L.first, L.last, L.size + Len(values), L.heap)
  IN IF ~inBounds(L, index)
     THEN IF index = L.size
          THEN Result(AppendValues(L, values).list, AppendValues(L, values).err, Nil)
          ELSE Result(L1, ErrIndexOutOfBounds, Nil)
     ELSE IF index = 0 THEN Result(Prepend(L, values).list, NoError, Nil)
     ELSE InsertAt(L, index, values)

\* Insert that adds len(values) to the size again after Append.
InsertCountsTwice(L, index, values) ==
  IF ~inBounds(L, index)
  THEN IF index = L.size
       THEN LET A == AppendValues(L, values).list
            IN Result(MkList(A.first, A.last, A.size + Len(values), A.heap),
                      AppendValues(L, values).err, Nil)
       ELSE Result(L, ErrIndexOutOfBounds, Nil)
  ELSE IF index = 0 THEN Result(Prepend(L, values).list, NoError, Nil)
  ELSE InsertAt(L, index, values)

\* Insert without the index == list.size case.
InsertNoAppendAtSize(L, index, values) ==
  IF ~inBounds(L, index) THEN Result(L, ErrIndexOutOfBounds, Nil)
  ELSE IF index = 0 THEN Result(Prepend(L, values).list, NoError, Nil)
  ELSE InsertAt(L, index, values)

\* Insert adds the values at the index.
Insert(L, index, values) ==
  IF ~inBounds(L, index)
  THEN IF index = L.size
       THEN Result(AppendValues(L, values).list, AppendValues(L, values).err, Nil)
       ELSE Result(L, ErrIndexOutOfBounds, Nil)
  ELSE IF index = 0 THEN Result(Prepend(L, values).list, NoError, Nil)
  ELSE InsertAt(L, index, values)

\* Set without the walk to the index: it writes the head node.
SetAtHead(L, index, value) ==
  IF ~inBounds(L, index) THEN Result(L, ErrIndexOutOfBounds, Nil)
  ELSE IF L.first = Nil THEN Result(L, Panic, Nil)
  ELSE Result(MkList(L.first, L.last, L.size,
                     Store(L.heap, L.first, value, L.heap[L.first].next)),
              NoError, Nil)

\* Set updates the value at the index.
Set(L, index, value) ==
  IF ~inBounds(L, index) THEN Result(L, ErrIndexOutOfBounds, Nil)
  ELSE LET w == Walk(L.heap, Nil, L.first, 0, index)
       IN IF w.panic \/ w.node = Nil THEN Result(L, Panic, Nil)
          ELSE Result(MkList(L.first, L.last, L.size,
                             Store(L.heap, w.node, value, L.heap[w.node].next)),
                      NoError, Nil)

RECURSIVE ReachFrom(_, _)
\* The nodes reachable from the nodes S by next links.
ReachFrom(h, S) ==
  LET S2 == (S \cup {h[n].next : n \in S}) \ {Nil}
  IN IF S2 = S THEN S ELSE ReachFrom(h, S2)

\* Garbage collection: a node no pointer of the list leads to is gone.
Collect(L) ==
  LET live == ReachFrom(L.heap, {L.first, L.last} \ {Nil})
  IN MkList(L.first, L.last, L.size, [n \in live |-> L.heap[n]])

RECURSIVE Trace(_, _, _)
\* The nodes seen following next links from node, after those of seen.
Trace(h, node, seen) ==
  IF node = Nil \/ node \in Range(seen) THEN seen
  ELSE Trace(h, h[node].next, Append(seen, node))

\* A program cannot observe the address of a node, only whether two pointers
\* are equal: the live nodes are renamed 1, 2, ... in the order the chain
\* from first, then the chain from last, reaches them.
Relocate(L) ==
  LET order == Trace(L.heap, L.last, Trace(L.heap, L.first, <<>>))
      addr(n) == IF n = Nil THEN Nil
                 ELSE CHOOSE k \in 1..Len(order) : order[k] = n
  IN MkList(addr(L.first), addr(L.last), L.size,
            [k \in 1..Len(order) |->
               [value |-> L.heap[order[k]].value,
                next |-> addr(L.heap[order[k]].next)]])

\* The list the variables hold.
Cur == MkList(first, last, size, heap)

\* The argument lists and indexes the calls are made with.
Args == UNION {[1..n -> T] : n \in 0..MaxArgs}
Indexes == (-1)..(size + 1)

\* A call: its name, index arguments and value arguments.
Call(name, i, j, values) == [name |-> name, i |-> i, j |-> j, values |-> values]

\* A call returned r: the list becomes r.list, and the call, the list before
\* it and what it returned are recorded.
Return(call, r) ==
  /\ pc = "ready"
  /\ r.list.size <= MaxSize
  /\ LET L == Collect(r.list)
     IN /\ first' = L.first
        /\ last' = L.last
        /\ size' = L.size
        /\ heap' = L.heap
  /\ pc' = "returned"
  /\ pre' = Cur
  /\ op' = call
  /\ err' = r.err
  /\ ret' = r.ret

\* list := New(values...)
Init ==
  \E values \in Args :
    LET L == Collect(New(values))
    IN /\ first = L.first
       /\ last = L.last
       /\ size = L.size
       /\ heap = L.heap
       /\ pc = "returned"
       /\ pre = EmptyList
       /\ op = Call("New", 0, 0, values)
       /\ err = NoError
       /\ ret = Nil

CallSize == Return(Call("Size", 0, 0, <<>>), Result(Cur, NoError, Size(Cur)))

CallIsEmpty == Return(Call("IsEmpty", 0, 0, <<>>), Result(Cur, NoError, IsEmpty(Cur)))

CallAdd == \E values \in Args : Return(Call("Add", 0, 0, values), Add(Cur, values))

CallAppend ==
  \E values \in Args : Return(Call("Append", 0, 0, values), AppendValues(Cur, values))

CallPrepend ==
  \E values \in Args : Return(Call("Prepend", 0, 0, values), Prepend(Cur, values))

CallFirst == Return(Call("First", 0, 0, <<>>), First(Cur))

CallLast == Return(Call("Last", 0, 0, <<>>), Last(Cur))

CallGet == \E index \in Indexes : Return(Call("Get", index, 0, <<>>), Get(Cur, index))

CallValues == Return(Call("Values", 0, 0, <<>>), Values(Cur))

CallIndexOf ==
  \E value \in T : Return(Call("IndexOf", 0, 0, <<value>>), IndexOf(Cur, value))

CallClear == Return(Call("Clear", 0, 0, <<>>), Clear(Cur))

CallRemove ==
  \E index \in Indexes : Return(Call("Remove", index, 0, <<>>), Remove(Cur, index))

CallContains ==
  \E values \in Args : Return(Call("Contains", 0, 0, values), Contains(Cur, values))

CallSwap ==
  \E i \in Indexes, j \in Indexes : Return(Call("Swap", i, j, <<>>), Swap(Cur, i, j))

CallInsert ==
  \E index \in Indexes, values \in Args :
    Return(Call("Insert", index, 0, values), Insert(Cur, index, values))

CallSet ==
  \E index \in Indexes, value \in T :
    Return(Call("Set", index, 0, <<value>>), Set(Cur, index, value))

\* The caller has looked at what the call returned and goes on to its next
\* call; a panic ends the program.
Resume ==
  /\ pc = "returned"
  /\ err # Panic
  /\ pc' = "ready"
  /\ LET L == Relocate(Cur)
     IN /\ first' = L.first
        /\ last' = L.last
        /\ size' = L.size
        /\ heap' = L.heap
        /\ pre' = L
  /\ op' = Call("none", 0, 0, <<>>)
  /\ err' = NoError
  /\ ret' = Nil

Next ==
  \/ Resume
  \/ CallSize
  \/ CallIsEmpty
  \/ CallAdd
  \/ CallAppend
  \/ CallPrepend
  \/ CallFirst
  \/ CallLast
  \/ CallGet
  \/ CallValues
  \/ CallIndexOf
  \/ CallClear
  \/ CallRemove
  \/ CallContains
  \/ CallSwap
  \/ CallInsert
  \/ CallSet

Spec == Init /\ [][Next]_vars

(***************************************************************************)
(* What the properties are stated in: the chain of a list, read off the    *)
(* heap without any method of the list.                                    *)
(***************************************************************************)

\* The nodes met following next links from first, up to nil or a node met
\* before.
ChainNodes(L) == Trace(L.heap, L.first, <<>>)

\* The values of those nodes, head to tail.
Elements(L) == [k \in 1..Len(ChainNodes(L)) |-> L.heap[ChainNodes(L)[k]].value]

\* The last node of the chain, nil when the chain has no node.
FinalNode(L) ==
  IF ChainNodes(L) = <<>> THEN Nil ELSE ChainNodes(L)[Len(ChainNodes(L))]

\* The chain ends in nil: it has no node, or its last node has no successor.
EndsInNil(L) ==
  IF FinalNode(L) = Nil THEN L.first = Nil ELSE L.heap[FinalNode(L)].next = Nil

\* The sequence s without its k-th element (k counts from 1).
DeleteAt(s, k) == SubSeq(s, 1, k - 1) \o SubSeq(s, k + 1, Len(s))

\* The sequence s with the sequence x put in after its first k elements.
Splice(s, k, x) == SubSeq(s, 1, k) \o x \o SubSeq(s, k + 1, Len(s))

\* A call of the method name has returned.
Returned(name) == pc = "returned" /\ op.name = name

\* The errors a method returns.
Errors == {ErrIndexOutOfBounds, ErrEmptyList, ErrElementNotFound}

\* C1: after every call, failed calls included, Size() is the number of
\* nodes on the chain from first, which is the number of elements Values()
\* enumerates, and the chain has no cycle and ends in nil after Size() nodes.
SizeIsChainLength ==
  /\ Size(Cur) = Len(ChainNodes(Cur))
  /\ EndsInNil(Cur)
  /\ Values(Cur).err = NoError
  /\ Values(Cur).ret = Elements(Cur)

\* C1 happens: a failed Remove on a list of two elements.
SizeIsChainLengthWitness ==
  /\ Returned("Remove")
  /\ err = ErrIndexOutOfBounds
  /\ pre.size = 2
  /\ size = 2

\* C2: whenever the list is not empty, last is the final node of the chain
\* from first, and its next link is nil.
LastIsFinalNode ==
  (size > 0 \/ first # Nil) =>
     /\ last # Nil
     /\ last = FinalNode(Cur)
     /\ heap[last].next = Nil

\* C2 happens: Prepend of two values on an empty list.
LastIsFinalNodeWitness ==
  /\ Returned("Prepend")
  /\ pre.size = 0
  /\ Len(op.values) = 2
  /\ size = 2

\* C3: size is 0 exactly when first is nil, exactly when last is nil.
EmptyIffNoHeadIffNoTail ==
  /\ (size = 0) <=> (first = Nil)
  /\ (first = Nil) <=> (last = Nil)

\* C3 happens: Clear of a list that had elements.
EmptyIffNoHeadIffNoTailWitness ==
  /\ Returned("Clear")
  /\ pre.size > 0
  /\ size = 0

\* C4: a call of Get, Remove, Swap, Insert, Set, First, Last or IndexOf that
\* returns an error leaves first, last, size and every node as they were.
ErrorLeavesListUnchanged ==
  (/\ pc = "returned"
   /\ op.name \in {"Get", "Remove", "Swap", "Insert", "Set", "First", "Last", "IndexOf"}
   /\ err \in Errors) => Cur = pre

\* C4 happens: Insert of two values at an index beyond the size fails.
ErrorLeavesListUnchangedWitness ==
  /\ Returned("Insert")
  /\ err = ErrIndexOutOfBounds
  /\ op.i > pre.size
  /\ Len(op.values) = 2
  /\ pre.size = 2

\* C5: Contains(values...) is true exactly when every value that occurs in
\* values occurs in the list, however often it is repeated in values.
ContainsIffAllPresent ==
  Returned("Contains") =>
     (ret <=> (Range(op.values) \subseteq Range(Elements(pre))))

\* An index outside [0, size) of the list the call was made on.
OutOfBounds(index) == index < 0 \/ index >= pre.size

\* The last call was Get, Set, Remove or Swap with an index out of bounds.
IndexedCallOutOfBounds ==
  /\ pc = "returned"
  /\ \/ op.name \in {"Get", "Set", "Remove"} /\ OutOfBounds(op.i)
     \/ op.name = "Swap" /\ (OutOfBounds(op.i) \/ OutOfBounds(op.j))

\* C6 as stated: in every list state Get, Set, Remove and Swap return
\* IndexOutOfBounds for an index outside [0, size), Get with the zero value.
OutOfBoundsAlwaysIndexError ==
  IndexedCallOutOfBounds =>
     /\ err = ErrIndexOutOfBounds
     /\ op.name = "Get" => ret = Zero

\* C6 as amended: Get, Set and Swap in every list state, and Remove on a
\* list that is not empty, return IndexOutOfBounds for an index outside
\* [0, size), Get with the zero value.
OutOfBoundsIndexError ==
  (IndexedCallOutOfBounds /\ ~(op.name = "Remove" /\ pre.size = 0)) =>
     /\ err = ErrIndexOutOfBounds
     /\ op.name = "Get" => ret = Zero

\* C6 happens: Get at the index size of a list of two elements.
OutOfBoundsIndexErrorWitness ==
  /\ Returned("Get")
  /\ pre.size = 2
  /\ op.i = 2
  /\ err = ErrIndexOutOfBounds

\* C7: on an empty list First, Last, IndexOf and Remove return EmptyList,
\* Remove for every index, in bounds or not.
EmptyListError ==
  (/\ pc = "returned"
   /\ op.name \in {"First", "Last", "IndexOf", "Remove"}
   /\ pre.size = 0) => err = ErrEmptyList

\* C7 happens: Remove at a negative index on an empty list.
EmptyListErrorWitness ==
  /\ Returned("Remove")
  /\ pre.size = 0
  /\ op.i < 0
  /\ err = ErrEmptyList

\* C8: Remove at an index in [0, size) of a list that is not empty returns
\* nil, and the list is then the list before without the element at the
\* index, one element shorter.
RemoveDeletesElement ==
  (Returned("Remove") /\ pre.size > 0 /\ ~OutOfBounds(op.i)) =>
     /\ err = NoError
     /\ Elements(Cur) = DeleteAt(Elements(pre), op.i + 1)
     /\ Values(Cur).ret = DeleteAt(Values(pre).ret, op.i + 1)
     /\ Size(Cur) = Size(pre) - 1

\* C8 happens: Remove of the tail of a list of three elements.
RemoveDeletesElementWitness ==
  /\ Returned("Remove")
  /\ pre.size = 3
  /\ op.i = 2
  /\ err = NoError

\* C9: Insert of k values at an index with 0 < index < size returns nil, the
\* list is then the first index elements, the values in argument order and
\* the rest, the size is k larger and last is the node it was.
InsertSplicesValues ==
  (Returned("Insert") /\ 0 < op.i /\ op.i < pre.size) =>
     /\ err = NoError
     /\ Elements(Cur) = Splice(Elements(pre), op.i, op.values)
     /\ Values(Cur).ret = Splice(Values(pre).ret, op.i, op.values)
     /\ Size(Cur) = Size(pre) + Len(op.values)
     /\ last = pre.last

\* C9 happens: Insert of two different values in the middle of a list.
InsertSplicesValuesWitness ==
  /\ Returned("Insert")
  /\ pre.size = 2
  /\ op.i = 1
  /\ Len(op.values) = 2
  /\ op.values[1] # op.values[2]
  /\ err = NoError

\* The list a call leaves: the list r.list with its unreachable nodes gone,
\* up to the addresses of the nodes.
Left(L) == Relocate(Collect(L))

\* C10: Insert(0, x...) returns nil and leaves the list as Prepend(x...)
\* would, Insert(size, x...) returns nil and leaves it as Append(x...)
\* would, and the size grows by len(x), on the empty list too.
InsertAtEndsIsPrependAppend ==
  /\ (Returned("Insert") /\ op.i = 0) =>
        /\ err = NoError
        /\ Left(Cur) = Left(Prepend(pre, op.values).list)
        /\ Elements(Cur) = op.values \o Elements(pre)
  /\ (Returned("Insert") /\ op.i = pre.size) =>
        /\ err = NoError
        /\ Left(Cur) = Left(AppendValues(pre, op.values).list)
        /\ Elements(Cur) = Elements(pre) \o op.values
  /\ (Returned("Insert") /\ op.i \in {0, pre.size}) =>
        Size(Cur) = Size(pre) + Len(op.values)

\* C10 happens: Insert of two different values at index 0 of the empty list.
InsertAtEndsIsPrependAppendWitness ==
  /\ Returned("Insert")
  /\ pre.size = 0
  /\ op.i = 0
  /\ Len(op.values) = 2
  /\ op.values[1] # op.values[2]
  /\ size = 2

\* C11: Insert returns IndexOutOfBounds exactly when index < 0 or
\* index > size, and nil for every index in [0, size], whatever the number
\* of values.
InsertErrorIffOutsideClosedRange ==
  Returned("Insert") =>
     /\ (err = ErrIndexOutOfBounds) <=> (op.i < 0 \/ op.i > pre.size)
     /\ (0 <= op.i /\ op.i <= pre.size) => err = NoError

\* C11 happens: Insert of no value at the index size of a list of two.
InsertErrorIffOutsideClosedRangeWitness ==
  /\ Returned("Insert")
  /\ pre.size = 2
  /\ op.i = 2
  /\ op.values = <<>>
  /\ err = NoError

\* C12: after Prepend(values...) the list is values in the order passed and
\* then what it was, the size is len(values) larger, and on a list that was
\* empty last is the node of the last value passed.
PrependKeepsArgumentOrder ==
  Returned("Prepend") =>
     /\ Elements(Cur) = op.values \o Elements(pre)
     /\ Values(Cur).ret = op.values \o Values(pre).ret
     /\ Size(Cur) = Size(pre) + Len(op.values)
     /\ (pre.size = 0 /\ Len(op.values) > 0) =>
           /\ last # Nil
           /\ last = FinalNode(Cur)
           /\ heap[last].value = op.values[Len(op.values)]

\* C12 happens: Prepend of two different values on a list of one element.
PrependKeepsArgumentOrderWitness ==
  /\ Returned("Prepend")
  /\ pre.size = 1
  /\ Len(op.values) = 2
  /\ op.values[1] # op.values[2]
  /\ size = 3

\* C13: after Add(values...) or Append(values...) Values() is what it was
\* and then values in argument order, the size is len(values) larger; and
\* the Values() of New(v1..vn) is v1..vn.
AddAppendsInOrder ==
  /\ (Returned("Add") \/ Returned("Append")) =>
        /\ Elements(Cur) = Elements(pre) \o op.values
        /\ Values(Cur).ret = Values(pre).ret \o op.values
        /\ Size(Cur) = Size(pre) + Len(op.values)
  /\ Returned("New") =>
        /\ Values(Cur).ret = op.values
        /\ Size(Cur) = Len(op.values)

\* C13 happens: Append of two different values on a list of two elements.
AddAppendsInOrderWitness ==
  /\ Returned("Append")
  /\ pre.size = 2
  /\ Len(op.values) = 2
  /\ op.values[1] # op.values[2]
  /\ size = 4

\* The nodes of L and the link of each: the chain without the values.
Links(L) == [n \in DOMAIN L.heap |-> L.heap[n].next]

\* C14: Swap(i, j) with i and j in [0, size) returns nil, exchanges the
\* values at i and j and leaves every other value, the size, first, last
\* and the links as they were; with i = j the list is as it was.
SwapExchangesValues ==
  (Returned("Swap") /\ ~OutOfBounds(op.i) /\ ~OutOfBounds(op.j)) =>
     /\ err = NoError
     /\ Elements(Cur) = [Elements(pre) EXCEPT ![op.i + 1] = Elements(pre)[op.j + 1],
                                              ![op.j + 1] = Elements(pre)[op.i + 1]]
     /\ Size(Cur) = Size(pre)
     /\ first = pre.first
     /\ last = pre.last
     /\ Links(Cur) = Links(pre)
     /\ op.i = op.j => Cur = pre

\* C14 happens: Swap of the first and last of three elements that differ.
SwapExchangesValuesWitness ==
  /\ Returned("Swap")
  /\ pre.size = 3
  /\ op.i = 0
  /\ op.j = 2
  /\ Elements(pre)[1] # Elements(pre)[3]
  /\ err = NoError

\* C15: no call panics: no method reads a field of a nil node or writes
\* past the end of a slice, for any arguments in any reachable list.
NoPanic == err # Panic

\* C15 happens: Swap of the last element with an earlier one has found both
\* nodes.
NoPanicWitness ==
  /\ Returned("Swap")
  /\ pre.size = 4
  /\ op.i = 3
  /\ op.j = 1
  /\ err = NoError

\* C16: Get at an index in [0, size) returns nil and the element at that
\* position of the head-to-tail sequence, which is Values()[index].
GetReturnsElement ==
  (Returned("Get") /\ ~OutOfBounds(op.i)) =>
     /\ err = NoError
     /\ ret = Elements(pre)[op.i + 1]
     /\ ret = Values(pre).ret[op.i + 1]

\* C16 happens: Get of the second of three elements, which differs from the
\* first.
GetReturnsElementWitness ==
  /\ Returned("Get")
  /\ pre.size = 3
  /\ op.i = 1
  /\ Elements(pre)[2] # Elements(pre)[1]
  /\ err = NoError

\* C17: on a list that is not empty IndexOf(value) returns the smallest
\* position that holds value and nil when value occurs, so that Get there
\* returns value, and -1 and ElementNotFound when it does not; every failed
\* IndexOf returns -1.
IndexOfReturnsFirstPosition ==
  /\ (Returned("IndexOf") /\ pre.size > 0) =>
        IF op.values[1] \in Range(Elements(pre))
        THEN /\ err = NoError
             /\ ret \in 0..(pre.size - 1)
             /\ Elements(pre)[ret + 1] = op.values[1]
             /\ \A k \in 0..(ret - 1) : Elements(pre)[k + 1] # op.values[1]
             /\ Get(pre, ret) = Result(pre, NoError, op.values[1])
        ELSE /\ err = ErrElementNotFound
             /\ ret = -1
  /\ (Returned("IndexOf") /\ err # NoError) => ret = -1

\* C17 happens: IndexOf of a value that is at positions 1 and 2, not at 0.
IndexOfReturnsFirstPositionWitness ==
  /\ Returned("IndexOf")
  /\ pre.size = 3
  /\ Elements(pre)[1] # op.values[1]
  /\ Elements(pre)[2] = op.values[1]
  /\ Elements(pre)[3] = op.values[1]
  /\ ret = 1

\* C18: Set at an index in [0, size) returns nil, Get at the index then
\* returns the value, and the other values, the size, first, last and the
\* links are as they were.
SetOverwritesOneValue ==
  (Returned("Set") /\ ~OutOfBounds(op.i)) =>
     /\ err = NoError
     /\ Get(Cur, op.i).err = NoError
     /\ Get(Cur, op.i).ret = op.values[1]
     /\ Elements(Cur) = [Elements(pre) EXCEPT ![op.i + 1] = op.values[1]]
     /\ Size(Cur) = Size(pre)
     /\ first = pre.first
     /\ last = pre.last
     /\ Links(Cur) = Links(pre)

\* C18 happens: Set of the last of three elements to a value it did not
\* hold.
SetOverwritesOneValueWitness ==
  /\ Returned("Set")
  /\ pre.size = 3
  /\ op.i = 2
  /\ Elements(pre)[3] # op.values[1]
  /\ err = NoError

\* C19: whenever the list is not empty, First() returns what Get(0) returns
\* and Last() what Get(Size()-1) returns, all with a nil error.
FirstLastAgreeWithGet ==
  /\ size > 0 =>
        /\ First(Cur).err = NoError
        /\ Last(Cur).err = NoError
        /\ Get(Cur, 0).err = NoError
        /\ Get(Cur, Size(Cur) - 1).err = NoError
        /\ First(Cur).ret = Get(Cur, 0).ret
        /\ Last(Cur).ret = Get(Cur, Size(Cur) - 1).ret
  /\ (Returned("First") /\ pre.size > 0) => (err = NoError /\ ret = Elements(pre)[1])
  /\ (Returned("Last") /\ pre.size > 0) =>
        (err = NoError /\ ret = Elements(pre)[pre.size])

\* C19 happens: Remove of the last of two elements that differ.
FirstLastAgreeWithGetWitness ==
  /\ Returned("Remove")
  /\ pre.size = 2
  /\ op.i = 1
  /\ Elements(pre)[1] # Elements(pre)[2]
  /\ size = 1

\* C20: Size, IsEmpty, First, Last, Get, Values, IndexOf and Contains leave
\* first, last, size, the links and the values as they were, whether they
\* fail or not.
QueriesLeaveListUnchanged ==
  (/\ pc = "returned"
   /\ op.name \in {"Size", "IsEmpty", "First", "Last", "Get", "Values",
                   "IndexOf", "Contains"}) => Cur = pre

\* C20 happens: Values of a list of three elements has returned them.
QueriesLeaveListUnchangedWitness ==
  /\ Returned("Values")
  /\ pre.size = 3
  /\ Len(ret) = 3
  /\ ret = Elements(pre)

====
